---- MODULE Spec2Model ----
(***************************************************************************)
(* Model of the request-to-feature pipeline of app.py: the /predict        *)
(* handler, from the raw form fields to the rendered response.             *)
(*                                                                         *)
(* A raw form value is what request.form.get returns: None, or a string.   *)
(* Strings of the numeric fields are sequences of one-character strings,   *)
(* so that int() and float() are computed from the characters; city and    *)
(* location are only tested for emptiness and membership and stay plain    *)
(* strings.  The character set of the numeric fields is the digits, the    *)
(* sign, the decimal point and letters: no blanks, underscores or          *)
(* exponents.                                                              *)
(***************************************************************************)
EXTENDS Integers, Sequences, FiniteSets, TLC

\* pc            where predict() stands in the request in hand
\* data          the form values read at lines 55-62
\* numeric_data  the converted numbers of lines 76-81
\* input_df      the one-row DataFrame of lines 106-115
\* prediction    what model.predict returned at line 118
\* response      what predict() returns: the template and its text or price
\* failure       which failure of the error taxonomy ended the request
\* escaped       an exception left predict() uncaught
\* encoder_calls, model_calls
\*               calls of target_encoder.transform and of model.predict made
\*               for the request in hand
\* last_failure  kind and message of the failed request before this one
VARIABLES pc, data, numeric_data, input_df, prediction, response,
          failure, escaped, encoder_calls, model_calls, last_failure

vars == <<pc, data, numeric_data, input_df, prediction, response,
          failure, escaped, encoder_calls, model_calls, last_failure>>

\* ---------------------------------------------------------------- bounds
\* Largest magnitude of the whole numbers a client types in a numeric field.
MaxNum == 1

\* ------------------------------------------------------- raw form values
None == [none |-> TRUE]
Str(s) == [none |-> FALSE, s |-> s]

\* Python truthiness of a form value: None and the empty string are falsy,
\* every other string (the string "0" too) is truthy.
Truthy(v) == (~v.none) /\ Len(v.s) > 0

\* all(data.values())
all_values(d) == \A k \in DOMAIN d : Truthy(d[k])

\* --------------------------------------------------------- int(), float()
Digits == <<"0", "1", "2", "3", "4", "5", "6", "7", "8", "9">>
IsDigit(c) == \E i \in 1..10 : Digits[i] = c
DigitVal(c) == (CHOOSE i \in 1..10 : Digits[i] = c) - 1

RECURSIVE DecVal(_)
DecVal(s) == IF Len(s) = 0 THEN 0
             ELSE 10 * DecVal(SubSeq(s, 1, Len(s) - 1)) + DigitVal(s[Len(s)])

RECURSIVE ToStr(_)
\* str(n) of a natural number, as the characters a client types
ToStr(n) == IF n < 10 THEN <<Digits[n + 1]>>
            ELSE ToStr(n \div 10) \o <<Digits[(n % 10) + 1]>>

ValueError == [t |-> "ValueError"]
IsValueError(v) == v.t = "ValueError"

HasSign(s) == Len(s) > 0 /\ s[1] \in {"+", "-"}
Unsigned(s) == IF HasSign(s) THEN Tail(s) ELSE s
SignOf(s) == IF HasSign(s) /\ s[1] = "-" THEN -1 ELSE 1

\* int(s): an optional sign and one or more decimal digits, else ValueError
int(s) ==
    LET body == Unsigned(s)
    IN IF Len(body) > 0 /\ \A i \in 1..Len(body) : IsDigit(body[i])
       THEN [t |-> "int", v |-> SignOf(s) * DecVal(body)]
       ELSE ValueError

\* float(s): an optional sign and nan, inf, or digits with at most one
\* decimal point and at least one digit; else ValueError.  A finite value
\* is sgn * mant / 10^scale.
float(s) ==
    LET body == Unsigned(s)
        points == {i \in 1..Len(body) : body[i] = "."}
        digits == SelectSeq(body, IsDigit)
    IN IF body = <<"n", "a", "n">> THEN [t |-> "float", cls |-> "nan"]
       ELSE IF body = <<"i", "n", "f">>
            THEN [t |-> "float", cls |-> "inf", sgn |-> SignOf(s)]
       ELSE IF /\ Len(digits) > 0
               /\ Cardinality(points) <= 1
               /\ \A i \in 1..Len(body) : IsDigit(body[i]) \/ body[i] = "."
            THEN [t |-> "float", cls |-> "fin", sgn |-> SignOf(s),
                  mant |-> DecVal(digits),
                  scale |-> IF points = {} THEN 0
                            ELSE Len(body) - (CHOOSE i \in points : TRUE)]
       ELSE ValueError

\* value < 0 in place of value <= 0
LtZero(x) ==
    IF x.t = "int" THEN x.v < 0
    ELSE IF x.cls = "nan" THEN FALSE
    ELSE IF x.cls = "inf" THEN x.sgn < 0
    ELSE x.sgn * x.mant < 0

\* value <= 0, for an int or a float.  Every comparison with nan is False.
LeqZero(x) ==
    IF x.t = "int" THEN x.v <= 0
    ELSE IF x.cls = "nan" THEN FALSE
    ELSE IF x.cls = "inf" THEN x.sgn < 0
    ELSE x.sgn * x.mant <= 0

\* ------------------------------------------------------------ constants
VALID_CITIES == <<"City_chattogram", "City_cumilla", "City_dhaka",
                  "City_gazipur", "City_narayanganj-city">>

\* the two floor columns in the order of the form, not of the trained schema
column_order_form == <<"Bedrooms", "Bathrooms", "Floor_area", "Floor_no", "Location",
                       "City_chattogram", "City_cumilla", "City_dhaka", "City_gazipur",
                       "City_narayanganj-city">>

column_order == <<"Bedrooms", "Bathrooms", "Floor_no", "Floor_area", "Location",
                  "City_chattogram", "City_cumilla", "City_dhaka", "City_gazipur",
                  "City_narayanganj-city">>

MsgMissing == "Please fill out all fields."
MsgCity == "Invalid city selected."
MsgRange == "All numeric values must be greater than 0."
\* the message of the range check pasted into the except branch
MsgNumberPasted == "All numeric values must be greater than 0."

MsgNumber == "Invalid numeric input. Please check your numbers."
MsgGeneric == "An error occurred during prediction. Please try again."

Range(seq) == {seq[i] : i \in DOMAIN seq}

\* x in VALID_CITIES
InList(x, list) == \E i \in DOMAIN list : list[i] = x

NumericFields == {"bedrooms", "bathrooms", "floor_area", "floor_no"}

\* ------------------------------------------------------------ validation
\* The dict of the four conversions; a ValueError of any of them leaves the
\* try block before the range check.
convert(d) ==
    [bedrooms   |-> int(d.bedrooms.s),
     bathrooms  |-> int(d.bathrooms.s),
     floor_area |-> float(d.floor_area.s),
     floor_no   |-> int(d.floor_no.s)]

Rejected(text, kind) == [ok |-> FALSE, text |-> text, kind |-> kind]
Accepted(nd) == [ok |-> TRUE, numeric_data |-> nd]

\* the city check moved before the presence check
validate_city_first(d) ==
    IF d.city.none \/ ~InList(d.city.s, VALID_CITIES)
    THEN Rejected(MsgCity, "InvalidCityError")
    ELSE IF ~all_values(d) THEN Rejected(MsgMissing, "MissingFieldError")
    ELSE LET nd == convert(d)
         IN IF \E k \in NumericFields : IsValueError(nd[k])
            THEN Rejected(MsgNumber, "InvalidNumberError")
            ELSE IF \E k \in NumericFields : LeqZero(nd[k])
            THEN Rejected(MsgRange, "OutOfRangeError")
            ELSE Accepted(nd)

\* the city check moved after the numeric checks
validate_city_last(d) ==
    IF ~all_values(d) THEN Rejected(MsgMissing, "MissingFieldError")
    ELSE LET nd == convert(d)
         IN IF \E k \in NumericFields : IsValueError(nd[k])
            THEN Rejected(MsgNumber, "InvalidNumberError")
            ELSE IF \E k \in NumericFields : LeqZero(nd[k])
            THEN Rejected(MsgRange, "OutOfRangeError")
            ELSE IF ~InList(d.city.s, VALID_CITIES)
            THEN Rejected(MsgCity, "InvalidCityError")
            ELSE Accepted(nd)

\* the range check without its return
validate_no_range(d) ==
    IF ~all_values(d) THEN Rejected(MsgMissing, "MissingFieldError")
    ELSE IF ~InList(d.city.s, VALID_CITIES) THEN Rejected(MsgCity, "InvalidCityError")
    ELSE LET nd == convert(d)
         IN IF \E k \in NumericFields : IsValueError(nd[k])
            THEN Rejected(MsgNumber, "InvalidNumberError")
            ELSE Accepted(nd)

\* The checks of predict() up to its first return, in the order of the code.
\* kind names the failure of the error taxonomy that the return stands for.
validate(d) ==
    IF ~all_values(d) THEN Rejected(MsgMissing, "MissingFieldError")
    ELSE IF ~InList(d.city.s, VALID_CITIES) THEN Rejected(MsgCity, "InvalidCityError")
    ELSE LET nd == convert(d)
         IN IF \E k \in NumericFields : IsValueError(nd[k])
            THEN Rejected(MsgNumber, "InvalidNumberError")
            ELSE IF \E k \in NumericFields : LeqZero(nd[k])
            THEN Rejected(MsgRange, "OutOfRangeError")
            ELSE Accepted(nd)

\* ------------------------------------------------ feature vector assembly
IntCell(n) == [t |-> "int", v |-> n]
StrCell(s) == [t |-> "str", v |-> s]

city_features(d) ==
    [c \in Range(VALID_CITIES) |-> IntCell(IF c = d.city.s THEN 1 ELSE 0)]

input_data(d, nd) ==
    city_features(d) @@
    ("Location" :> StrCell(d.location.s)) @@
    ("Bedrooms" :> nd.bedrooms) @@
    ("Bathrooms" :> nd.bathrooms) @@
    ("Floor_area" :> nd.floor_area) @@
    ("Floor_no" :> nd.floor_no)

\* pd.DataFrame([input_data])[column_order]: one row, as <<column, cell>> pairs
frame(d, nd) ==
    [i \in DOMAIN column_order |->
        <<column_order[i], input_data(d, nd)[column_order[i]]>>]

\* input_df['Location'] = encoded
set_location(df, encoded) ==
    [i \in DOMAIN df |->
        IF df[i][1] = "Location" THEN <<"Location", encoded>> ELSE df[i]]

\* ----------------------------------------------------------- formatting
Pad(s, n) == [i \in 1..n |-> IF i <= n - Len(s) THEN "0" ELSE s[i - (n - Len(s))]]

RECURSIVE Grouped(_)
\* the digits of n with a comma before every group of three
Grouped(n) == IF n < 1000 THEN ToStr(n)
              ELSE Grouped(n \div 1000) \o <<",">> \o Pad(ToStr(n % 1000), 3)

Abs(n) == IF n < 0 THEN -n ELSE n

\* f"{x:,.2f}" of a price given in hundredths
format_price(cents) ==
    (IF cents < 0 THEN <<"-">> ELSE <<>>) \o
    Grouped(Abs(cents) \div 100) \o <<".">> \o Pad(ToStr(Abs(cents) % 100), 2)

\* ------------------------------------------------------------- requests
\* The whole numbers a client types, with and without a minus sign
RawWhole == {ToStr(n) : n \in 0..MaxNum} \cup {<<"-">> \o ToStr(n) : n \in 1..MaxNum}

RawInt == {None} \cup {Str(s) : s \in RawWhole \cup {<<>>, <<"x">>, <<"1", ".", "5">>}}
RawFloat == RawInt \cup {Str(<<"n", "a", "n">>), Str(<<"i", "n", "f">>)}
RawCity == {None, Str(""), Str("Dhaka")} \cup {Str(c) : c \in Range(VALID_CITIES)}
RawLocation == {None, Str(""), Str("Mirpur")}

\* request.form of one POST /predict
Requests ==
    [city : RawCity, location : RawLocation, bedrooms : RawInt,
     bathrooms : RawInt, floor_area : RawFloat, floor_no : RawInt]

\* ---------------------------------------------------------- collaborators
\* What the two unpickled collaborators may do when called: raise, or return.
Raises(e) == [raises |-> TRUE, exception |-> e]
Returns(v) == [raises |-> FALSE, value |-> v]

EncoderOutcomes ==
    {Raises("KeyError"), Raises("ValueError"),
     Returns([t |-> "float", cls |-> "fin", sgn |-> 1, mant |-> 70, scale |-> 1])}

\* model.predict returns an array: of one price (in hundredths), empty, or of
\* something that is no number
ModelOutcomes ==
    {Raises("ValueError"), Raises("RuntimeError"),
     Returns(<<>>), Returns(<<[t |-> "str"]>>)} \cup
    {Returns(<<[t |-> "float", cents |-> c]>>) : c \in {450000000, 99950, -1234567}}

\* ------------------------------------------------------------- responses
NoData == [none |-> TRUE]
NoResponse == [template |-> "none"]
NoPrediction == <<[t |-> "unset"]>>
Home(text) == [template |-> "home.html", prediction_text |-> text]
\* Of the values given to prediction.html only the formatted price is kept.
PredictionPage(price) == [template |-> "prediction.html", predicted_price |-> price]
NoFailure == [kind |-> "none", text |-> ""]

\* except ValueError in place of except Exception
CaughtValueError(e) == e = "ValueError"

\* except Exception: every exception the body raises is an Exception
Caught(e) == e \in {"ValueError", "IndexError", "KeyError", "TypeError", "RuntimeError"}

\* An exception e raised in the body of predict(), at a point that stands for
\* the failure kind: the outer handler renders the generic message, and what
\* it does not catch leaves predict().
Raise(e, kind) ==
    /\ pc' = "failed"
    /\ failure' = kind
    /\ IF Caught(e)
       THEN response' = Home(MsgGeneric) /\ escaped' = FALSE
       ELSE response' = NoResponse /\ escaped' = TRUE

\* ---------------------------------------------------------------- state
Init ==
    /\ pc = "ready"
    /\ data = NoData
    /\ numeric_data = NoData
    /\ input_df = <<>>
    /\ prediction = NoPrediction
    /\ response = NoResponse
    /\ failure = "none"
    /\ escaped = FALSE
    /\ encoder_calls = 0
    /\ model_calls = 0
    /\ last_failure = NoFailure

\* ---------------------------------------------------------------- actions
\* The form of a request is read and validated.
Validate(raw) ==
    /\ data' = raw
    /\ LET r == validate(raw)
       IN IF r.ok
          THEN /\ pc' = "validated"
               /\ numeric_data' = r.numeric_data
               /\ UNCHANGED <<response, failure>>
          ELSE /\ pc' = "failed"
               /\ response' = Home(r.text)
               /\ failure' = r.kind
               /\ UNCHANGED numeric_data
    /\ UNCHANGED <<input_df, prediction, escaped, encoder_calls, model_calls,
                   last_failure>>

\* POST /predict arrives, with any form.
Receive ==
    /\ pc = "ready"
    /\ \E raw \in Requests : Validate(raw)

\* The one-row DataFrame is built and its columns arranged.
BuildFrame ==
    /\ pc = "validated"
    /\ input_df' = frame(data, numeric_data)
    /\ pc' = "framed"
    /\ UNCHANGED <<data, numeric_data, prediction, response, failure, escaped,
                   encoder_calls, model_calls, last_failure>>

\* target_encoder.transform is called on the Location column.
Transform ==
    /\ pc = "framed"
    /\ encoder_calls' = encoder_calls + 1
    /\ \E out \in EncoderOutcomes :
          IF out.raises
          THEN Raise(out.exception, "EncodingError") /\ UNCHANGED input_df
          ELSE /\ input_df' = set_location(input_df, out.value)
               /\ pc' = "encoded"
               /\ UNCHANGED <<response, failure, escaped>>
    /\ UNCHANGED <<data, numeric_data, prediction, model_calls, last_failure>>

InferAt(stages) ==
    /\ pc \in stages
    /\ model_calls' = model_calls + 1
    /\ \E out \in ModelOutcomes :
          IF out.raises
          THEN Raise(out.exception, "InferenceError") /\ UNCHANGED prediction
          ELSE /\ prediction' = out.value
               /\ pc' = "inferred"
               /\ UNCHANGED <<response, failure, escaped>>
    /\ UNCHANGED <<data, numeric_data, input_df, encoder_calls, last_failure>>

\* model.predict called whether or not the location has been encoded
InferUnencoded == InferAt({"framed", "encoded"})

\* model.predict is called on the row, after the location is encoded.
Infer == InferAt({"encoded"})

\* prediction[0] is formatted and the prediction page rendered.
Format ==
    /\ pc = "inferred"
    /\ IF Len(prediction) = 0 THEN Raise("IndexError", "InferenceError")
       ELSE IF prediction[1].t # "float" THEN Raise("ValueError", "InferenceError")
       ELSE /\ response' = PredictionPage(format_price(prediction[1].cents))
            /\ pc' = "done"
            /\ UNCHANGED <<failure, escaped>>
    /\ UNCHANGED <<data, numeric_data, input_df, prediction, encoder_calls,
                   model_calls, last_failure>>

\* predict() has returned; the process is ready for the next request.
\* last_failure remembers the failed request before, to compare outcomes.
Return ==
    /\ pc \in {"done", "failed"}
    /\ pc' = "ready"
    /\ last_failure' = IF pc = "failed" /\ ~escaped
                       THEN [kind |-> failure, text |-> response.prediction_text]
                       ELSE last_failure
    /\ data' = NoData
    /\ numeric_data' = NoData
    /\ input_df' = <<>>
    /\ prediction' = NoPrediction
    /\ response' = NoResponse
    /\ failure' = "none"
    /\ escaped' = FALSE
    /\ encoder_calls' = 0
    /\ model_calls' = 0

Next ==
    \/ Receive
    \/ BuildFrame
    \/ Transform
    \/ Infer
    \/ Format
    \/ Return

Spec == Init /\ [][Next]_vars

\* ================================================================ claims
Fields == {"city", "location", "bedrooms", "bathrooms", "floor_area", "floor_no"}
ValidationKinds ==
    {"MissingFieldError", "InvalidCityError", "InvalidNumberError", "OutOfRangeError"}

\* value > 0, as a number: nan is not, +inf is
GtZero(x) ==
    IF x.t = "int" THEN x.v > 0
    ELSE IF x.cls = "nan" THEN FALSE
    ELSE IF x.cls = "inf" THEN x.sgn > 0
    ELSE x.sgn * x.mant > 0

\* The four checks, each stated on its own.
Missing(d) == \E k \in Fields : d[k].none \/ Len(d[k].s) = 0
UnknownCity(d) == d.city.s \notin Range(VALID_CITIES)
Parsed(k, d) == IF k = "floor_area" THEN float(d[k].s) ELSE int(d[k].s)
Unparseable(d) == \E k \in NumericFields : Parsed(k, d).t = "ValueError"
IsNaN(x) == x.t = "float" /\ x.cls = "nan"
AtMostZero(x) == ~IsNaN(x) /\ ~GtZero(x)
NonPositive(d) ==
    \E k \in NumericFields : Parsed(k, d).t # "ValueError" /\ AtMostZero(Parsed(k, d))

\* The request in hand has been answered with the message text.
Answered(text) ==
    /\ pc = "failed"
    /\ ~escaped
    /\ response.template = "home.html"
    /\ response.prediction_text = text

\* C1: the checks apply in the order presence, city, numeric parse, numeric
\* range, and the message returned is that of the first check that fails,
\* whatever later checks would have failed too.
C1_FirstFailingCheck ==
    pc # "ready" =>
        /\ Missing(data) => Answered(MsgMissing)
        /\ (~Missing(data) /\ UnknownCity(data)) => Answered(MsgCity)
        /\ (~Missing(data) /\ ~UnknownCity(data) /\ Unparseable(data))
              => Answered(MsgNumber)
        /\ (~Missing(data) /\ ~UnknownCity(data) /\ ~Unparseable(data)
              /\ NonPositive(data)) => Answered(MsgRange)

\* An unparseable number together with a non-positive one, reported as an
\* invalid number.
C1_Witness ==
    /\ pc = "failed"
    /\ ~Missing(data) /\ ~UnknownCity(data)
    /\ Unparseable(data) /\ NonPositive(data)
    /\ Answered(MsgNumber)

\* C2 as stated: a city outside VALID_CITIES is answered with the invalid
\* city message whatever the other five fields contain, absent and empty
\* fields included.
C2_AsStated ==
    (pc # "ready" /\ ~data.city.none /\ Len(data.city.s) > 0 /\ UnknownCity(data))
        => Answered(MsgCity)

\* C2 amended: when all six fields are present and non-empty, a city outside
\* VALID_CITIES is answered with the invalid city message whatever the four
\* numeric fields contain; the city check is never reached otherwise.
C2_InvalidCity ==
    /\ (pc # "ready" /\ ~Missing(data) /\ UnknownCity(data))
          => (Answered(MsgCity) /\ failure = "InvalidCityError")
    /\ failure = "InvalidCityError" => ~Missing(data)

C2_Witness ==
    /\ Answered(MsgCity)
    /\ ~Missing(data) /\ UnknownCity(data)
    /\ Unparseable(data) /\ NonPositive(data)

\* C3 as stated: with all fields present and a valid city, a numeric field
\* that parses to a value <= 0 is answered with the range message, whatever
\* the other numeric fields contain.
C3_AsStated ==
    (pc # "ready" /\ ~Missing(data) /\ ~UnknownCity(data) /\ NonPositive(data))
        => Answered(MsgRange)

\* C3 amended: with all fields present, a valid city and all four numeric
\* fields parseable, a numeric field that parses to a value <= 0 is answered
\* with the range message and never with the invalid number message.
C3_OutOfRange ==
    (pc # "ready" /\ ~Missing(data) /\ ~UnknownCity(data) /\ ~Unparseable(data)
        /\ NonPositive(data))
        => (Answered(MsgRange) /\ failure = "OutOfRangeError")

C3_Witness ==
    /\ Answered(MsgRange)
    /\ data.bedrooms.s = <<"-", "1">>
    /\ data.floor_area.s = <<"1", ".", "5">>

\* C4: a request that fails validation calls neither target_encoder.transform
\* nor model.predict, and no feature row is built for it.
C4_NoCallOnInvalid ==
    (pc # "ready" /\ (Missing(data) \/ UnknownCity(data) \/ Unparseable(data)
                        \/ NonPositive(data)))
        => (encoder_calls = 0 /\ model_calls = 0 /\ input_df = <<>>
            /\ Len(prediction) = 1 /\ prediction[1].t = "unset")

C4_Witness ==
    /\ Answered(MsgRange)
    /\ encoder_calls = 0 /\ model_calls = 0 /\ input_df = <<>>

\* C5: the row given to model.predict has the ten columns Bedrooms, Bathrooms,
\* Floor_no, Floor_area, Location and the five city columns, in this order,
\* and the city columns hold one 1, at the submitted city, and 0 elsewhere.
C5_RowSchema ==
    model_calls > 0 =>
        /\ Len(input_df) = 10
        /\ [i \in 1..10 |-> input_df[i][1]] =
              <<"Bedrooms", "Bathrooms", "Floor_no", "Floor_area", "Location",
                "City_chattogram", "City_cumilla", "City_dhaka", "City_gazipur",
                "City_narayanganj-city">>
        /\ input_df[1][2] = numeric_data.bedrooms
        /\ input_df[2][2] = numeric_data.bathrooms
        /\ input_df[3][2] = numeric_data.floor_no
        /\ input_df[4][2] = numeric_data.floor_area
        /\ \A i \in 1..5 :
              /\ input_df[5 + i][2].t = "int"
              /\ input_df[5 + i][2].v = (IF VALID_CITIES[i] = data.city.s THEN 1 ELSE 0)
        /\ Cardinality({i \in 6..10 : input_df[i][2].v = 1}) = 1
        /\ Cardinality({i \in 6..10 : input_df[i][2].v = 0}) = 4

C5_Witness ==
    /\ model_calls = 1
    /\ data.city.s = "City_gazipur"
    /\ input_df[9][2].v = 1

\* C6: whenever target_encoder.transform or model.predict has been called for
\* a request, all six fields are non-empty, the city is in VALID_CITIES,
\* bedrooms, bathrooms and floor_no are integers > 0 and floor_area is a real
\* number > 0, for every string the numeric parse accepts.
C6_ValidatedInput ==
    (encoder_calls > 0 \/ model_calls > 0) =>
        /\ ~Missing(data)
        /\ ~UnknownCity(data)
        /\ \A k \in {"bedrooms", "bathrooms", "floor_no"} :
              numeric_data[k].t = "int" /\ numeric_data[k].v > 0
        /\ numeric_data.floor_area.t = "float"
        /\ numeric_data.floor_area.cls = "fin"
        /\ GtZero(numeric_data.floor_area)

\* C7: every failure inside predict() ends the request with an error message
\* on the home page, never with a prediction page, and no exception leaves
\* predict().
C7_FailureClassified ==
    /\ ~escaped
    /\ failure # "none" => (pc = "failed" /\ response.template = "home.html")
    /\ pc = "failed" => (failure # "none" /\ response.template = "home.html")
    /\ response.template = "prediction.html" => (pc = "done" /\ failure = "none")

\* model.predict returned an empty array and the request failed
C7_Witness ==
    /\ pc = "failed"
    /\ model_calls = 1
    /\ failure = "InferenceError"
    /\ prediction = <<>>
    /\ response.template = "home.html"

CollaboratorKinds == {"EncodingError", "InferenceError"}

Stage(p) ==
    CASE p = "ready" -> 0
      [] p = "validated" -> 1
      [] p = "framed" -> 2
      [] p = "encoded" -> 3
      [] p = "inferred" -> 4
      [] p = "done" -> 5
      [] p = "failed" -> 6

LocationEncoded == Len(input_df) = 10 /\ input_df[5][2].t = "float"

IsZero(x) == IF x.t = "int" THEN x.v = 0 ELSE x.cls = "fin" /\ x.mant = 0

ZeroRequest(d) ==
    /\ ~Missing(d) /\ ~UnknownCity(d) /\ ~Unparseable(d)
    /\ \E k \in NumericFields :
          /\ IsZero(Parsed(k, d))
          /\ \A j \in NumericFields \ {k} : GtZero(Parsed(j, d))

C10_AsStated ==
    (pc # "ready" /\ ZeroRequest(data)) => Answered(MsgMissing)

\* C10 amended: such a request passes the presence check, the string "0" being
\* non-empty, and is answered by the range check with the message that all
\* numeric values must be greater than 0.
C10_ZeroIsRangeFailure ==
    (pc # "ready" /\ ZeroRequest(data))
        => (Answered(MsgRange) /\ failure = "OutOfRangeError")

C10_Witness ==
    /\ Answered(MsgRange)
    /\ ZeroRequest(data)
    /\ data.bedrooms.s = <<"0">>

====
